---- MODULE Spec2Model ----
(***************************************************************************)
(* Model of the process-cad-image edge function of cad3dify (the Deno      *)
(* handler that stages an uploaded drawing, runs the python conversion     *)
(* engine raced against a timer, publishes the artifacts and reports).     *)
(*                                                                         *)
(* One job is one invocation of the Deno.serve handler.  The handler is    *)
(* cut at its await points: every action is the synchronous code that runs *)
(* when the awaited operation completes, up to the next await.  The file   *)
(* system under /tmp, the two storage buckets, the models table and the    *)
(* clock behind Date.now() are shared by the jobs.                         *)
(*                                                                         *)
(* The second part models the CadProcessor React component that calls the  *)
(* function: its state hooks, the viewer's scene, the user's events and    *)
(* processImage cut at its awaits.  Handler and component are explored     *)
(* under separate specifications; each leaves the other's variables alone. *)
(***************************************************************************)
EXTENDS Integers, Sequences, FiniteSets, TLC

VARIABLES
    now,        \* the value Date.now() returns
    job,        \* per job: position in the handler and its local constants
    fs,         \* local file system: path -> bytes
    cadImages,  \* bucket 'cad-images': key -> [data, contentType]
    cadModels,  \* bucket 'cad-models': key -> [data, contentType]
    models,     \* table 'models': sequence of rows
    proc,       \* per job: the python3 cli.py child process
    timer,      \* per job: the setTimeout of the race
    resp,       \* per job: the responses returned by the handler
    hist        \* per job: what the job has done so far (observation only)

vars == <<now, job, fs, cadImages, cadModels, models, proc, timer, resp, hist>>

\* The CadProcessor component (one mounted instance in one browser tab).
VARIABLES
    clock,         \* milliseconds the browser's Date.now() has advanced
    viewer,        \* "unmounted", "ready" or "failed": the viewer's useEffect
    sceneRef,      \* sceneRef.current: whether set, and scene.children
    selectedFile,  \* useState: the chosen file's name, or Null
    prompt,        \* useState: the description text
    isProcessing,  \* useState
    messages,      \* useState: the chat list
    runs           \* the calls of processImage, each with its position

cvars == <<clock, viewer, sceneRef, selectedFile, prompt, isProcessing, messages, runs>>

-----------------------------------------------------------------------------
(* Bounds *)

MaxClock == 1

\* How many times the Generate button is pressed.
MaxRuns == 2

Jobs == {"j1", "j2"}

Clock == 0..MaxClock

-----------------------------------------------------------------------------
(* Values *)

Null == "null"
Undefined == "undefined"

\* Request bodies.  body = "garbage" is a body req.json() cannot parse and
\* imageData "Q" is no base64.  The two jobs submit distinct images under
\* distinct file names, one with a prompt and one without.
ValidRequest(j) ==
    IF j = "j1"
    THEN [body |-> "json", imageData |-> "QQ==", fileName |-> "a.png", prompt |-> "bracket"]
    ELSE [body |-> "json", imageData |-> "Qg==", fileName |-> "B.JPG", prompt |-> ""]

RequestsOf(j) ==
    { ValidRequest(j),
      [body |-> "json", imageData |-> "Q", fileName |-> "a.png", prompt |-> ""],
      [body |-> "garbage", imageData |-> "", fileName |-> "", prompt |-> ""] }

\* atob on the request encodings: "QQ==" is the byte 65, "Qg==" the byte 66,
\* and a string that is no base64 makes atob throw.
AtobOk(s) == s \in {"QQ==", "Qg=="}

Atob(s) ==
    CASE s = "QQ==" -> <<65>>
      [] s = "Qg==" -> <<66>>
      [] OTHER -> <<>>

AtobErrorMessage == "Failed to decode base64"

JsonErrorMessage == "Unexpected token in JSON"

\* fileName.toLowerCase().endsWith('.png') ? 'image/png' : 'image/jpeg'
ContentTypeOf(fileName) ==
    IF fileName \in {"a.png"} THEN "image/png" ELSE "image/jpeg"

\* Bytes the engine can leave on its standard error stream.
StderrChoices == { <<>>, <<101, 114, 255>> }

\* new TextDecoder().decode(bytes): UTF-8, a byte that starts no valid
\* sequence decodes to U+FFFD.
DecodeByte(b) ==
    CASE b = 101 -> "e"
      [] b = 114 -> "r"
      [] OTHER -> "<U+FFFD>"

RECURSIVE TextDecode(_)
TextDecode(bytes) ==
    IF bytes = <<>> THEN ""
    ELSE DecodeByte(Head(bytes)) \o TextDecode(Tail(bytes))

\* What the store answers when it rejects an upload for a reason of its own.
StoreReasons == {"quota exceeded"}

DuplicateReason == "The resource already exists"

DbReasons == {"permission denied for table models"}

\* The engine's conversion of an input image (opaque: tagged input bytes).
Derive(bytes) == <<83>> \o bytes

-----------------------------------------------------------------------------
(* Names built from Date.now() *)

ImageFileName(t, fileName) == "input_" \o ToString(t) \o "_" \o fileName

TempImagePath(t) == "/tmp/input_" \o ToString(t) \o ".jpg"

TempStepPath(t) == "/tmp/output_" \o ToString(t) \o ".step"

StepFileName(t) == "output_" \o ToString(t) \o ".step"

\* storage.from(bucket).getPublicUrl(key).publicUrl, with SUPABASE_URL ''
PublicUrl(bucket, key) == "/storage/v1/object/public/" \o bucket \o "/" \o key

-----------------------------------------------------------------------------
(* Error messages and responses *)

\* Mutant: the store's reason is left out of the message.
ImageUploadFailedNoReason(reason) == "Image upload failed"

ImageUploadFailed(reason) == "Image upload failed: " \o reason

PythonEnvMessage == "Python environment not properly configured"

TimeoutMessage == "Processing timeout - operation took too long"

\* Mutant: the captured stderr text is left out of the message.
PythonFailedNoStderr(code, stderrText) ==
    "Python script failed (exit code " \o ToString(code) \o ")"

PythonFailed(code, stderrText) ==
    "Python script failed (exit code " \o ToString(code) \o "): "
        \o (IF stderrText # "" THEN stderrText ELSE "Unknown error")

StepNotGenerated(reason) == "STEP file not generated: " \o reason

StepUploadFailed(reason) == "STEP file upload failed: " \o reason

NotFoundMessage(path) == "No such file or directory (os error 2): " \o path

WriteErrorMessage == "No space left on device (os error 28)"

SpawnErrorMessage == "Failed to spawn 'python3'"

\* new Response(body, init): the status is init.status, 200 when absent.
NewResponse(body, init) ==
    [status |-> IF "status" \in DOMAIN init THEN init.status ELSE 200,
     body |-> body]

NoInit == [headers |-> "cors"]

\* Mutant: the success body takes stepUrl from the upload result, which has
\* no publicUrl, so the field is dropped from the JSON.
SuccessResponseNoStepUrl(j) ==
    NewResponse(
        [success |-> TRUE,
         modelId |-> job[j].modelId,
         imageUrl |-> job[j].imageUrl,
         message |-> "CAD model generated successfully"],
        NoInit)

SuccessResponse(j) ==
    NewResponse(
        [success |-> TRUE,
         modelId |-> job[j].modelId,
         imageUrl |-> job[j].imageUrl,
         stepUrl |-> job[j].stepUrl,
         message |-> "CAD model generated successfully"],
        NoInit)

\* Mutant: the failure response is built without a status.
FailureResponseNoStatus(message) ==
    NewResponse(
        [success |-> FALSE,
         error |-> IF message # "" THEN message ELSE "An unexpected error occurred"],
        NoInit)

FailureResponse(message) ==
    NewResponse(
        [success |-> FALSE,
         error |-> IF message # "" THEN message ELSE "An unexpected error occurred"],
        [status |-> 500, headers |-> "cors"])

-----------------------------------------------------------------------------
(* State helpers *)

Exists(path) == path \in DOMAIN fs

WriteFile(f, path, data) ==
    [p \in DOMAIN f \cup {path} |-> IF p = path THEN data ELSE f[p]]

RemoveFile(f, path) == [p \in DOMAIN f \ {path} |-> f[p]]

Put(bucket, key, obj) ==
    [k \in DOMAIN bucket \cup {key} |-> IF k = key THEN obj ELSE bucket[k]]

EmptyMap == [p \in {} |-> <<>>]

NewJob ==
    [pc |-> "idle",
     req |-> [body |-> "none", imageData |-> "", fileName |-> "", prompt |-> ""],
     imageBytes |-> <<>>,
     imageFileName |-> Undefined,
     imageUrl |-> Undefined,
     tempImagePath |-> Undefined,
     tempStepPath |-> Undefined,
     stepFileData |-> <<>>,
     stepFileName |-> Undefined,
     stepUrl |-> Undefined,
     modelId |-> Null]

NewHist ==
    [imageUploads |-> 0,
     stepUploads |-> 0,
     inserts |-> 0,
     stepReads |-> 0,
     winner |-> "none",
     exitCode |-> -1,
     stderrText |-> "",
     readResult |-> "none",
     rejected |-> "",
     dbFailed |-> FALSE,
     cleanups |-> 0,
     staged |-> {},
     log |-> <<>>,
     failedAt |-> "none",
     engineStarts |-> 0,
     cleanupFailed |-> FALSE]

\* The stage has completed without throwing.
Ended(h, stage) == [h EXCEPT !.log = Append(@, stage)]

\* The stage has thrown and the catch block has reported.
Thrown(h, stage) ==
    [h EXCEPT !.log = Append(Append(@, stage), "report"),
              !.failedAt = IF @ = "none" THEN stage ELSE @]

NoProc == [state |-> "none", args |-> <<>>, wrote |-> FALSE]

Init ==
    /\ now = 0
    /\ job = [j \in Jobs |-> NewJob]
    /\ fs = EmptyMap
    /\ cadImages = EmptyMap
    /\ cadModels = EmptyMap
    /\ models = <<>>
    /\ proc = [j \in Jobs |-> NoProc]
    /\ timer = [j \in Jobs |-> "unarmed"]
    /\ resp = [j \in Jobs |-> <<>>]
    /\ hist = [j \in Jobs |-> NewHist]

\* Mutant: the catch block reports a fixed text instead of error.message.
CatchHidesMessage(j, message, fields) ==
    /\ job' = [job EXCEPT ![j] = [fields EXCEPT !.pc = "done"]]
    /\ resp' = [resp EXCEPT ![j] = Append(@, FailureResponse(""))]

\* Mutant: the catch block echoes the input locator it has computed so far.
CatchReportsImageUrl(j, message, fields) ==
    /\ job' = [job EXCEPT ![j] = [fields EXCEPT !.pc = "done"]]
    /\ resp' = [resp EXCEPT ![j] = Append(@,
            NewResponse(
                [success |-> FALSE,
                 error |-> IF message # "" THEN message ELSE "An unexpected error occurred",
                 imageUrl |-> fields.imageUrl],
                [status |-> 500, headers |-> "cors"]))]

\* The catch block: the handler returns the failure response.
Catch(j, message, fields) ==
    /\ job' = [job EXCEPT ![j] = [fields EXCEPT !.pc = "done"]]
    /\ resp' = [resp EXCEPT ![j] = Append(@, FailureResponse(message))]

-----------------------------------------------------------------------------
(* The clock *)

Tick ==
    /\ now < MaxClock
    /\ now' = now + 1
    /\ UNCHANGED <<cvars, job, fs, cadImages, cadModels, models, proc, timer, resp, hist>>

-----------------------------------------------------------------------------
(* The handler, one action per await *)

\* req.json(), atob, imageFileName, and the start of the image upload.
Receive(j) ==
    /\ job[j].pc = "idle"
    /\ \E r \in RequestsOf(j) :
        LET got == [job[j] EXCEPT !.req = r] IN
        IF r.body # "json"
        THEN /\ Catch(j, JsonErrorMessage, got)
             /\ hist' = [hist EXCEPT ![j] = Thrown(@, "decode")]
        ELSE IF ~AtobOk(r.imageData)
        THEN /\ Catch(j, AtobErrorMessage, got)
             /\ hist' = [hist EXCEPT ![j] = Thrown(@, "decode")]
        ELSE /\ job' = [job EXCEPT ![j] =
                    [got EXCEPT !.pc = "uploadImage",
                                !.imageBytes = Atob(r.imageData),
                                !.imageFileName = ImageFileName(now, r.fileName)]]
             /\ hist' = [hist EXCEPT ![j] = Ended(@, "decode")]
             /\ UNCHANGED resp
    /\ UNCHANGED <<cvars, now, fs, cadImages, cadModels, models, proc, timer>>

\* What storage.upload(key, ..., {upsert: false}) can answer.
UploadOutcomes(bucket, key) ==
    IF key \in DOMAIN bucket THEN {DuplicateReason} ELSE {"ok"} \cup StoreReasons

\* The image upload completes; on success the temp paths are derived and
\* Deno.writeFile is started.
ImageUploadDone(j) ==
    /\ job[j].pc = "uploadImage"
    /\ \E outcome \in UploadOutcomes(cadImages, job[j].imageFileName) :
        IF outcome # "ok"
        THEN /\ Catch(j, ImageUploadFailed(outcome), job[j])
             /\ hist' = [hist EXCEPT ![j] =
                    Thrown([@ EXCEPT !.imageUploads = @ + 1, !.rejected = outcome],
                           "uploadImage")]
             /\ UNCHANGED <<now, cadImages>>
        ELSE /\ cadImages' = Put(cadImages, job[j].imageFileName,
                    [data |-> job[j].imageBytes,
                     contentType |-> ContentTypeOf(job[j].req.fileName)])
             /\ \E t2 \in {t \in Clock : now <= t /\ t <= now + 1} :
                  /\ now' = t2
                  /\ job' = [job EXCEPT ![j] =
                        [@ EXCEPT !.pc = "writeTemp",
                                  !.imageUrl = PublicUrl("cad-images", job[j].imageFileName),
                                  !.tempImagePath = TempImagePath(now),
                                  !.tempStepPath = TempStepPath(t2)]]
             /\ hist' = [hist EXCEPT ![j] =
                    Ended([@ EXCEPT !.imageUploads = @ + 1], "uploadImage")]
             /\ UNCHANGED resp
    /\ UNCHANGED <<cvars, fs, cadModels, models, proc, timer>>

\* Mutant: the timer is created before the preflight check.
WriteTempDoneArmsTimer(j) ==
    /\ job[j].pc = "writeTemp"
    /\ \E ok \in BOOLEAN :
        IF ok
        THEN /\ fs' = WriteFile(fs, job[j].tempImagePath, job[j].imageBytes)
             /\ job' = [job EXCEPT ![j].pc = "pythonCheck"]
             /\ timer' = [timer EXCEPT ![j] = "armed"]
             /\ hist' = [hist EXCEPT ![j] =
                    Ended([@ EXCEPT !.staged = @ \cup {job[j].tempImagePath}],
                          "writeTemp")]
             /\ UNCHANGED resp
        ELSE /\ Catch(j, WriteErrorMessage, job[j])
             /\ hist' = [hist EXCEPT ![j] = Thrown(@, "writeTemp")]
             /\ UNCHANGED <<fs, timer>>
    /\ UNCHANGED <<cvars, now, cadImages, cadModels, models, proc>>

\* Deno.writeFile(tempImagePath, imageBytes) completes; the preflight
\* python3 check is started.
WriteTempDone(j) ==
    /\ job[j].pc = "writeTemp"
    /\ \E ok \in BOOLEAN :
        IF ok
        THEN /\ fs' = WriteFile(fs, job[j].tempImagePath, job[j].imageBytes)
             /\ job' = [job EXCEPT ![j].pc = "pythonCheck"]
             /\ hist' = [hist EXCEPT ![j] =
                    Ended([@ EXCEPT !.staged = @ \cup {job[j].tempImagePath}],
                          "writeTemp")]
             /\ UNCHANGED resp
        ELSE /\ Catch(j, WriteErrorMessage, job[j])
             /\ hist' = [hist EXCEPT ![j] = Thrown(@, "writeTemp")]
             /\ UNCHANGED fs
    /\ UNCHANGED <<cvars, now, cadImages, cadModels, models, proc, timer>>

\* Mutant: the two paths are passed in the wrong positions.
EngineArgsSwapped(j) ==
    <<"/home/project/scripts/cli.py", job[j].tempStepPath,
      "--output_filepath", job[j].tempImagePath>>

\* new Deno.Command('python3', {args: [cli.py, tempImagePath, '--output_filepath', tempStepPath]})
EngineArgs(j) ==
    <<"/home/project/scripts/cli.py", job[j].tempImagePath,
      "--output_filepath", job[j].tempStepPath>>

\* The preflight check completes; on success the engine process is created,
\* the timer is armed and the race is awaited.
PythonCheckDone(j) ==
    /\ job[j].pc = "pythonCheck"
    /\ \E outcome \in {"ok", "nonzero", "throws"} :
        IF outcome = "ok"
        THEN /\ job' = [job EXCEPT ![j].pc = "race"]
             /\ timer' = [timer EXCEPT ![j] = "armed"]
             /\ proc' = [proc EXCEPT ![j] =
                    [state |-> "running", args |-> EngineArgs(j), wrote |-> FALSE]]
             /\ hist' = [hist EXCEPT ![j] =
                    Ended([@ EXCEPT !.engineStarts = @ + 1], "pythonCheck")]
             /\ UNCHANGED resp
        ELSE /\ Catch(j, PythonEnvMessage, job[j])
             /\ hist' = [hist EXCEPT ![j] = Thrown(@, "pythonCheck")]
             /\ UNCHANGED <<timer, proc>>
    /\ UNCHANGED <<cvars, now, fs, cadImages, cadModels, models>>

-----------------------------------------------------------------------------
(* The engine process and the timer: the two waiters of Promise.race *)

\* The engine reads its input path and writes the converted model to its
\* output path.  It runs whether or not the handler still waits for it.
EngineWrite(j) ==
    /\ proc[j].state = "running"
    /\ ~proc[j].wrote
    /\ Exists(proc[j].args[2])
    /\ fs' = WriteFile(fs, proc[j].args[4], Derive(fs[proc[j].args[2]]))
    /\ proc' = [proc EXCEPT ![j].wrote = TRUE]
    /\ hist' = [hist EXCEPT ![j].staged = @ \cup {proc[j].args[4]}]
    /\ UNCHANGED <<cvars, now, job, cadImages, cadModels, models, timer, resp>>

\* Mutant: the invoker checks the output file itself and reports a missing
\* file as an engine failure.
AfterProcessChecksFile(j, code, stderr) ==
    LET stderrText == TextDecode(stderr) IN
    /\ hist' = [hist EXCEPT ![j] =
            LET h == [@ EXCEPT !.winner = "process",
                               !.exitCode = code,
                               !.stderrText = stderrText]
            IN IF code # 0 \/ ~Exists(job[j].tempStepPath) THEN Thrown(h, "invoke") ELSE Ended(h, "invoke")]
    /\ IF code # 0 \/ ~Exists(job[j].tempStepPath)
       THEN Catch(j, PythonFailed(code, stderrText), job[j])
       ELSE /\ job' = [job EXCEPT ![j].pc = "readStep"]
            /\ UNCHANGED resp

\* The code after the race when processPromise settled first: decode the
\* streams, throw on a non-zero code, else start reading the STEP file.
AfterProcess(j, code, stderr) ==
    LET stderrText == TextDecode(stderr) IN
    /\ hist' = [hist EXCEPT ![j] =
            LET h == [@ EXCEPT !.winner = "process",
                               !.exitCode = code,
                               !.stderrText = stderrText]
            IN IF code # 0 THEN Thrown(h, "invoke") ELSE Ended(h, "invoke")]
    /\ IF code # 0
       THEN Catch(j, PythonFailed(code, stderrText), job[j])
       ELSE /\ job' = [job EXCEPT ![j].pc = "readStep"]
            /\ UNCHANGED resp

\* The engine process exits.  If the handler is still in the race, the race
\* settles with the process output; otherwise nobody listens.
EngineExit(j) ==
    /\ proc[j].state = "running"
    /\ proc' = [proc EXCEPT ![j].state = "exited"]
    /\ \E code \in {0, 1}, stderr \in StderrChoices :
        IF job[j].pc = "race"
        THEN AfterProcess(j, code, stderr)
        ELSE UNCHANGED <<job, resp, hist>>
    /\ UNCHANGED <<cvars, now, fs, cadImages, cadModels, models, timer>>

\* pythonProcess.output() rejects because the process could not be spawned.
EngineSpawnFail(j) ==
    /\ proc[j].state = "running"
    /\ ~proc[j].wrote
    /\ job[j].pc = "race"
    /\ proc' = [proc EXCEPT ![j].state = "failed"]
    /\ hist' = [hist EXCEPT ![j] = Thrown([@ EXCEPT !.winner = "spawnerror"], "invoke")]
    /\ Catch(j, SpawnErrorMessage, job[j])
    /\ UNCHANGED <<cvars, now, fs, cadImages, cadModels, models, timer>>

\* Mutant: the timer callback reports the timeout whatever the handler did.
TimeoutRacedAlways(j) == TRUE

\* Mutant: the timer aborts the handler wherever it is.
TimeoutRacedAnywhere(j) == job[j].pc # "done"

\* Mutant: the process output is awaited alone, without the race.
TimeoutNotRaced(j) == FALSE

\* Whether the handler's race listens to the timer.
TimeoutRaced(j) == job[j].pc = "race"

\* The setTimeout callback rejects timeoutPromise.  If the race is still
\* pending it settles with the rejection and the catch block reports.
TimerFire(j) ==
    /\ timer[j] = "armed"
    /\ timer' = [timer EXCEPT ![j] = "fired"]
    /\ IF TimeoutRaced(j)
       THEN /\ hist' = [hist EXCEPT ![j] = Thrown([@ EXCEPT !.winner = "timer"], "invoke")]
            /\ Catch(j, TimeoutMessage, job[j])
       ELSE UNCHANGED <<job, resp, hist>>
    /\ UNCHANGED <<cvars, now, fs, cadImages, cadModels, models, proc>>

-----------------------------------------------------------------------------
(* Publishing, recording, cleanup, report *)

\* Mutant: a missing output file makes the handler run the engine again.
ReadStepDoneRetriesEngine(j) ==
    /\ job[j].pc = "readStep"
    /\ IF Exists(job[j].tempStepPath)
       THEN /\ job' = [job EXCEPT ![j] =
                  [@ EXCEPT !.pc = "uploadStep",
                            !.stepFileData = fs[job[j].tempStepPath],
                            !.stepFileName = StepFileName(now)]]
            /\ hist' = [hist EXCEPT ![j] =
                  Ended([@ EXCEPT !.stepReads = @ + 1, !.readResult = "present"],
                        "readStep")]
            /\ UNCHANGED <<resp, proc>>
       ELSE IF hist[j].engineStarts < 2
       THEN /\ job' = [job EXCEPT ![j].pc = "race"]
            /\ proc' = [proc EXCEPT ![j] =
                  [state |-> "running", args |-> EngineArgs(j), wrote |-> FALSE]]
            /\ hist' = [hist EXCEPT ![j].engineStarts = @ + 1]
            /\ UNCHANGED resp
       ELSE /\ Catch(j, StepNotGenerated(NotFoundMessage(job[j].tempStepPath)), job[j])
            /\ hist' = [hist EXCEPT ![j] =
                  Thrown([@ EXCEPT !.stepReads = @ + 1, !.readResult = "absent"],
                         "readStep")]
            /\ UNCHANGED proc
    /\ UNCHANGED <<cvars, now, fs, cadImages, cadModels, models, timer>>

\* Deno.readFile(tempStepPath) completes; on success the STEP upload starts.
ReadStepDone(j) ==
    /\ job[j].pc = "readStep"
    /\ IF Exists(job[j].tempStepPath)
       THEN /\ job' = [job EXCEPT ![j] =
                  [@ EXCEPT !.pc = "uploadStep",
                            !.stepFileData = fs[job[j].tempStepPath],
                            !.stepFileName = StepFileName(now)]]
            /\ hist' = [hist EXCEPT ![j] =
                  Ended([@ EXCEPT !.stepReads = @ + 1, !.readResult = "present"],
                        "readStep")]
            /\ UNCHANGED resp
       ELSE /\ Catch(j, StepNotGenerated(NotFoundMessage(job[j].tempStepPath)), job[j])
            /\ hist' = [hist EXCEPT ![j] =
                  Thrown([@ EXCEPT !.stepReads = @ + 1, !.readResult = "absent"],
                         "readStep")]
    /\ UNCHANGED <<cvars, now, fs, cadImages, cadModels, models, proc, timer>>

\* Mutant: the insert is not awaited in line; cleanup starts right after the
\* STEP upload.
StepUploadDoneSkipsInsert(j) ==
    /\ job[j].pc = "uploadStep"
    /\ \E outcome \in UploadOutcomes(cadModels, job[j].stepFileName) :
        IF outcome # "ok"
        THEN /\ Catch(j, StepUploadFailed(outcome), job[j])
             /\ hist' = [hist EXCEPT ![j] =
                    Thrown([@ EXCEPT !.stepUploads = @ + 1, !.rejected = outcome],
                           "uploadStep")]
             /\ UNCHANGED cadModels
        ELSE /\ cadModels' = Put(cadModels, job[j].stepFileName,
                    [data |-> job[j].stepFileData, contentType |-> "application/step"])
             /\ job' = [job EXCEPT ![j] =
                    [@ EXCEPT !.pc = "rmImage",
                              !.stepUrl = PublicUrl("cad-models", job[j].stepFileName)]]
             /\ hist' = [hist EXCEPT ![j] =
                    Ended([@ EXCEPT !.stepUploads = @ + 1], "uploadStep")]
             /\ UNCHANGED resp
    /\ UNCHANGED <<cvars, now, fs, cadImages, models, proc, timer>>

\* The STEP upload completes; on success the models insert starts.
StepUploadDone(j) ==
    /\ job[j].pc = "uploadStep"
    /\ \E outcome \in UploadOutcomes(cadModels, job[j].stepFileName) :
        IF outcome # "ok"
        THEN /\ Catch(j, StepUploadFailed(outcome), job[j])
             /\ hist' = [hist EXCEPT ![j] =
                    Thrown([@ EXCEPT !.stepUploads = @ + 1, !.rejected = outcome],
                           "uploadStep")]
             /\ UNCHANGED cadModels
        ELSE /\ cadModels' = Put(cadModels, job[j].stepFileName,
                    [data |-> job[j].stepFileData, contentType |-> "application/step"])
             /\ job' = [job EXCEPT ![j] =
                    [@ EXCEPT !.pc = "insert",
                              !.stepUrl = PublicUrl("cad-models", job[j].stepFileName)]]
             /\ hist' = [hist EXCEPT ![j] =
                    Ended([@ EXCEPT !.stepUploads = @ + 1], "uploadStep")]
             /\ UNCHANGED resp
    /\ UNCHANGED <<cvars, now, fs, cadImages, models, proc, timer>>

\* prompt || 'Generated from 2D CAD image'
PromptOrDefault(text) ==
    IF text # "" THEN text ELSE "Generated from 2D CAD image"

\* Mutant: a failed insert is thrown like the other errors.
AfterInsertErrorThrows(j, reason) == Catch(j, reason, job[j])

\* What the handler does with a failed insert: nothing but a warning.
AfterInsertError(j, reason) ==
    /\ job' = [job EXCEPT ![j] = [@ EXCEPT !.pc = "rmImage", !.modelId = Null]]
    /\ UNCHANGED resp

\* Mutant: the row's file_url is taken from the input locator.
InsertDoneImageUrl(j) ==
    /\ job[j].pc = "insert"
    /\ LET id == "model-" \o ToString(Len(models) + 1) IN
         /\ models' = Append(models,
                [id |-> id,
                 prompt |-> PromptOrDefault(job[j].req.prompt),
                 file_url |-> job[j].imageUrl,
                 project_id |-> Null])
         /\ job' = [job EXCEPT ![j] = [@ EXCEPT !.pc = "rmImage", !.modelId = id]]
         /\ hist' = [hist EXCEPT ![j] = Ended([@ EXCEPT !.inserts = @ + 1], "insert")]
         /\ UNCHANGED resp
    /\ UNCHANGED <<cvars, now, fs, cadImages, cadModels, proc, timer>>

\* The insert into 'models' completes; either way cleanup starts.
InsertDone(j) ==
    /\ job[j].pc = "insert"
    /\ \E outcome \in {"ok"} \cup DbReasons :
        IF outcome = "ok"
        THEN LET id == "model-" \o ToString(Len(models) + 1) IN
             /\ models' = Append(models,
                    [id |-> id,
                     prompt |-> PromptOrDefault(job[j].req.prompt),
                     file_url |-> job[j].stepUrl,
                     project_id |-> Null])
             /\ job' = [job EXCEPT ![j] = [@ EXCEPT !.pc = "rmImage", !.modelId = id]]
             /\ hist' = [hist EXCEPT ![j] = Ended([@ EXCEPT !.inserts = @ + 1], "insert")]
             /\ UNCHANGED resp
        ELSE /\ AfterInsertError(j, outcome)
             /\ hist' = [hist EXCEPT ![j] =
                    [@ EXCEPT !.dbFailed = TRUE,
                              !.log = Append(@, IF job'[j].pc = "done" THEN "report"
                                                ELSE "insert")]]
             /\ UNCHANGED models
    /\ UNCHANGED <<cvars, now, fs, cadImages, cadModels, proc, timer>>

\* The handler returns the success response.
Report(j) ==
    /\ job' = [job EXCEPT ![j].pc = "done"]
    /\ resp' = [resp EXCEPT ![j] = Append(@, SuccessResponse(j))]

\* Mutant: the cleanup is not wrapped in its own try, so a failed removal
\* reaches the handler's catch block.
RemoveImageDoneThrows(j) ==
    /\ job[j].pc = "rmImage"
    /\ IF Exists(job[j].tempImagePath)
       THEN /\ fs' = RemoveFile(fs, job[j].tempImagePath)
            /\ job' = [job EXCEPT ![j].pc = "rmStep"]
            /\ hist' = [hist EXCEPT ![j] = Ended([@ EXCEPT !.cleanups = @ + 1], "rmImage")]
            /\ UNCHANGED resp
       ELSE /\ Catch(j, NotFoundMessage(job[j].tempImagePath), job[j])
            /\ hist' = [hist EXCEPT ![j] =
                  Ended(Ended([@ EXCEPT !.cleanups = @ + 1, !.cleanupFailed = TRUE],
                              "rmImage"), "report")]
            /\ UNCHANGED fs
    /\ UNCHANGED <<cvars, now, cadImages, cadModels, models, proc, timer>>

\* Mutant: each removal has its own try, so the second is attempted after
\* the first has failed.
RemoveImageDoneContinues(j) ==
    /\ job[j].pc = "rmImage"
    /\ fs' = IF Exists(job[j].tempImagePath)
             THEN RemoveFile(fs, job[j].tempImagePath)
             ELSE fs
    /\ job' = [job EXCEPT ![j].pc = "rmStep"]
    /\ hist' = [hist EXCEPT ![j] =
          Ended([@ EXCEPT !.cleanups = @ + 1,
                          !.cleanupFailed = ~Exists(job[j].tempImagePath)],
                "rmImage")]
    /\ UNCHANGED <<cvars, now, cadImages, cadModels, models, proc, timer, resp>>

\* Deno.remove(tempImagePath) completes.  A failure leaves the try block:
\* it is logged and the handler reports.
RemoveImageDone(j) ==
    /\ job[j].pc = "rmImage"
    /\ IF Exists(job[j].tempImagePath)
       THEN /\ fs' = RemoveFile(fs, job[j].tempImagePath)
            /\ job' = [job EXCEPT ![j].pc = "rmStep"]
            /\ hist' = [hist EXCEPT ![j] = Ended([@ EXCEPT !.cleanups = @ + 1], "rmImage")]
            /\ UNCHANGED resp
       ELSE /\ Report(j)
            /\ hist' = [hist EXCEPT ![j] =
                  Ended(Ended([@ EXCEPT !.cleanups = @ + 1, !.cleanupFailed = TRUE],
                              "rmImage"), "report")]
            /\ UNCHANGED fs
    /\ UNCHANGED <<cvars, now, cadImages, cadModels, models, proc, timer>>

\* Deno.remove(tempStepPath) completes; the handler reports.
RemoveStepDone(j) ==
    /\ job[j].pc = "rmStep"
    /\ fs' = IF Exists(job[j].tempStepPath)
             THEN RemoveFile(fs, job[j].tempStepPath)
             ELSE fs
    /\ Report(j)
    /\ hist' = [hist EXCEPT ![j] =
          Ended(Ended([@ EXCEPT !.cleanupFailed = ~Exists(job[j].tempStepPath)],
                      "rmStep"), "report")]
    /\ UNCHANGED <<cvars, now, cadImages, cadModels, models, proc, timer>>

-----------------------------------------------------------------------------
(* The CadProcessor component: values *)

\* The files the user can choose and the texts the user can type.
Files == {"a.png"}

PromptTexts == {"", " bracket "}

\* String.prototype.trim on the texts above.
Trim(text) == IF text = " bracket " THEN "bracket" ELSE text

\* FileReader.readAsDataURL(file), then result.split(',')[1]
Base64Of(file) == IF file = "a.png" THEN "QQ==" ELSE "Qg=="

\* Date.now() in the browser, long after the epoch.
DateNow(t) == 1000 + t

\* The answers fetch can resolve with: the handler's success and failure
\* responses, the same bodies under the other status, a success body without
\* stepUrl, a JSON body of the gateway without success or error, and a body
\* that is no JSON.
HandlerSuccessBody ==
    [success |-> TRUE,
     modelId |-> Null,
     imageUrl |-> PublicUrl("cad-images", ImageFileName(0, "a.png")),
     stepUrl |-> PublicUrl("cad-models", StepFileName(0)),
     message |-> "CAD model generated successfully"]

HandlerFailureBody == [success |-> FALSE, error |-> TimeoutMessage]

FetchResponses ==
    { [status |-> 200, parseable |-> TRUE, body |-> HandlerSuccessBody],
      [status |-> 500, parseable |-> TRUE, body |-> HandlerSuccessBody],
      [status |-> 500, parseable |-> TRUE, body |-> HandlerFailureBody],
      [status |-> 200, parseable |-> TRUE, body |-> HandlerFailureBody],
      [status |-> 200, parseable |-> TRUE,
       body |-> [success |-> TRUE, message |-> "CAD model generated successfully"]],
      [status |-> 404, parseable |-> TRUE, body |-> [message |-> "Not Found"]],
      [status |-> 502, parseable |-> FALSE, body |-> [message |-> ""]] }

NoResponse == [status |-> 0, parseable |-> FALSE, body |-> [message |-> ""]]

\* result.field of a parsed body: undefined when the field is absent.
Field(r, f) == IF f \in DOMAIN r THEN r[f] ELSE Undefined

\* JavaScript truthiness of a string-valued field.
Truthy(v) == v \notin {"", Undefined, Null}

\* The texts of the chat.
UserText(file, text) ==
    "Processing: " \o file \o (IF text # "" THEN "\n\nDescription: " \o text ELSE "")

ProcessingText == "Processing your CAD drawing..."

SuccessText == "Success! Your 3D model has been generated successfully."

DefaultErrorText == "An unexpected error occurred. Please try again with a different image or check your connection."

FailedText(result) ==
    "Processing failed: "
        \o (IF Truthy(Field(result, "error")) THEN result.error ELSE DefaultErrorText)

CatchText == "Failed to process image. Please check your connection and try again."

WelcomeMessage ==
    [id |-> "1", type |-> "system", content |-> "Welcome to CAD3Dify!"]

\* addMessage: the id from the clock (the timestamp, which is only shown, is
\* left out), appended with
\* setMessages(prev => [...prev, newMessage]).
AddMessage(msgs, message, t) ==
    Append(msgs, message @@ [id |-> ToString(DateNow(t))])

\* The scene after the lights and helpers have been added (objects without a
\* name have the name '').
BaseScene ==
    << [name |-> "", kind |-> "ambientLight"],
       [name |-> "", kind |-> "directionalLight"],
       [name |-> "", kind |-> "rimLight"],
       [name |-> "", kind |-> "fillLight"],
       [name |-> "", kind |-> "gridHelper"],
       [name |-> "", kind |-> "axesHelper"] >>

NoScene == [set |-> FALSE, children |-> <<>>]

NotCadModel(obj) == obj.name # "cadModel"

\* displayWelcomeModel: nothing without a scene; else every child named
\* 'cadModel' is removed and the welcome group is added.
DisplayWelcomeModel(ref) ==
    IF ~ref.set THEN ref
    ELSE [ref EXCEPT !.children =
            Append(SelectSeq(@, NotCadModel), [name |-> "cadModel", kind |-> "welcome"])]

\* Mutant: the success group is added without clearing the existing models.
DisplaySuccessModelKeepsOld(ref) ==
    IF ~ref.set THEN ref
    ELSE [ref EXCEPT !.children = Append(@, [name |-> "cadModel", kind |-> "success"])]

\* displaySuccessModel: as displayWelcomeModel, with the success group.
DisplaySuccessModel(ref) ==
    IF ~ref.set THEN ref
    ELSE [ref EXCEPT !.children =
            Append(SelectSeq(@, NotCadModel), [name |-> "cadModel", kind |-> "success"])]

\* A call of processImage: its position, the selectedFile and prompt its
\* closure captured, and its locals.
NewRun(file, text) ==
    [pc |-> "toBase64",
     file |-> file,
     prompt |-> text,
     request |-> [imageData |-> "", fileName |-> "", prompt |-> ""],
     response |-> NoResponse,
     outcome |-> "none",
     status |-> 0,
     reselected |-> FALSE]

\* A call that has returned: its closure and locals are gone.  What is kept
\* is observation: how it ended, the status it was answered with, and
\* whether the user chose a file while it was in flight.
EndedRun(outcome, status, reselected) ==
    [pc |-> "ended",
     file |-> "",
     prompt |-> "",
     request |-> [imageData |-> "", fileName |-> "", prompt |-> ""],
     response |-> NoResponse,
     outcome |-> outcome,
     status |-> status,
     reselected |-> reselected]

\* Observation is kept of the latest returned call only.
Forget(rs) ==
    [r \in DOMAIN rs |-> IF rs[r].pc = "ended" THEN EndedRun("", 0, FALSE) ELSE rs[r]]

ClientInit ==
    /\ clock = 0
    /\ viewer = "unmounted"
    /\ sceneRef = NoScene
    /\ selectedFile = Null
    /\ prompt = ""
    /\ isProcessing = FALSE
    /\ messages = <<WelcomeMessage>>
    /\ runs = <<>>

-----------------------------------------------------------------------------
(* The CadProcessor component: event handlers and the steps of processImage *)

ClientTick ==
    /\ clock < MaxClock
    /\ clock' = clock + 1
    /\ UNCHANGED <<vars, viewer, sceneRef, selectedFile, prompt, isProcessing, messages, runs>>

\* The viewer's useEffect after the first render: the scene is built and
\* stored, then the welcome model is shown; a renderer that cannot be created
\* throws before the scene is stored and the error is only logged.
InitViewer ==
    /\ viewer = "unmounted"
    /\ \E ok \in BOOLEAN :
        IF ok
        THEN /\ sceneRef' = DisplayWelcomeModel([set |-> TRUE, children |-> BaseScene])
             /\ viewer' = "ready"
        ELSE /\ viewer' = "failed"
             /\ UNCHANGED sceneRef
    /\ UNCHANGED <<vars, clock, selectedFile, prompt, isProcessing, messages, runs>>

\* Observation: the runs in flight have seen the user choose a file.
MarkReselected(rs) ==
    [r \in DOMAIN rs |->
        IF rs[r].pc # "ended" THEN [rs[r] EXCEPT !.reselected = TRUE] ELSE rs[r]]

\* The file input, which is rendered while no file is selected.
HandleFileSelect(file) ==
    /\ viewer # "unmounted"
    /\ selectedFile = Null
    /\ selectedFile' = file
    /\ runs' = MarkReselected(runs)
    /\ UNCHANGED <<vars, clock, viewer, sceneRef, prompt, isProcessing, messages>>

\* An image file dropped on the drop zone, at any time.
HandleDrop(file) ==
    /\ viewer # "unmounted"
    /\ selectedFile' = file
    /\ runs' = MarkReselected(runs)
    /\ UNCHANGED <<vars, clock, viewer, sceneRef, prompt, isProcessing, messages>>

\* The 'Remove File' button: setSelectedFile(null).
RemoveSelectedFile ==
    /\ viewer # "unmounted"
    /\ selectedFile # Null
    /\ selectedFile' = Null
    /\ UNCHANGED <<vars, clock, viewer, sceneRef, prompt, isProcessing, messages, runs>>

\* The textarea: setPrompt(e.target.value).
SetPrompt(text) ==
    /\ viewer # "unmounted"
    /\ text # prompt
    /\ prompt' = text
    /\ UNCHANGED <<vars, clock, viewer, sceneRef, selectedFile, isProcessing, messages, runs>>

\* Mutant: the button is disabled only while no file is selected.
GenerateDisabledWithoutFile == selectedFile = Null

\* disabled={!selectedFile || isProcessing}
GenerateDisabled == selectedFile = Null \/ isProcessing

\* Mutant: only the user message is added before the request.
StartMessagesUserOnly(msgs, file, text, t1, t2) ==
    AddMessage(msgs,
        [type |-> "user", content |-> UserText(file, text), imageUrl |-> "blob:" \o file],
        t1)

\* The two addMessage calls at the start of processImage.
StartMessages(msgs, file, text, t1, t2) ==
    AddMessage(
        AddMessage(msgs,
            [type |-> "user", content |-> UserText(file, text), imageUrl |-> "blob:" \o file],
            t1),
        [type |-> "assistant", content |-> ProcessingText],
        t2)

\* A click on Generate: processImage up to its first await.
ProcessImage ==
    /\ viewer # "unmounted"
    /\ ~GenerateDisabled
    /\ Len(runs) < MaxRuns
    /\ selectedFile # Null
    /\ isProcessing' = TRUE
    /\ \E t2 \in {t \in Clock : clock <= t /\ t <= clock + 1} :
        /\ clock' = t2
        /\ messages' = StartMessages(messages, selectedFile, prompt, clock, t2)
    /\ runs' = Append(Forget(runs), NewRun(selectedFile, prompt))
    /\ UNCHANGED <<vars, viewer, sceneRef, selectedFile, prompt>>

\* Mutant: the finally block resets isProcessing only.
FinallyKeepsSelection ==
    /\ isProcessing' = FALSE
    /\ UNCHANGED <<vars, selectedFile, prompt>>

\* The finally block.
Finally ==
    /\ isProcessing' = FALSE
    /\ selectedFile' = Null
    /\ prompt' = ""

\* The run leaves processImage through the finally block.
EndRun(r, outcome) ==
    /\ runs' = [Forget(runs) EXCEPT ![r] =
            EndedRun(outcome, runs[r].response.status, runs[r].reselected)]
    /\ Finally

\* The catch block, then the finally block.
CatchRun(r) ==
    /\ messages' = AddMessage(messages, [type |-> "assistant", content |-> CatchText], clock)
    /\ EndRun(r, "error")

\* convertFileToBase64 settles; on success the request is sent.
Base64Done(r) ==
    /\ r \in DOMAIN runs
    /\ runs[r].pc = "toBase64"
    /\ \E ok \in BOOLEAN :
        IF ok
        THEN /\ runs' = [runs EXCEPT ![r] =
                    [@ EXCEPT !.pc = "fetch",
                              !.request =
                                  [imageData |-> Base64Of(runs[r].file),
                                   fileName |-> runs[r].file,
                                   prompt |-> IF Trim(runs[r].prompt) # ""
                                              THEN Trim(runs[r].prompt)
                                              ELSE "Generate 3D model from 2D CAD drawing"]]]
             /\ UNCHANGED <<selectedFile, prompt, isProcessing, messages>>
        ELSE CatchRun(r)
    /\ UNCHANGED <<vars, clock, viewer, sceneRef>>

\* fetch settles: a response, or a rejection when the network fails.
FetchDone(r) ==
    /\ r \in DOMAIN runs
    /\ runs[r].pc = "fetch"
    /\ \/ \E response \in FetchResponses :
            /\ runs' = [runs EXCEPT ![r] = [@ EXCEPT !.pc = "json", !.response = response]]
            /\ UNCHANGED <<selectedFile, prompt, isProcessing, messages>>
       \/ CatchRun(r)
    /\ UNCHANGED <<vars, clock, viewer, sceneRef>>

\* Mutant: the HTTP status decides.
ShowsSuccessOnStatus(response) == response.status = 200

\* result.success && result.stepUrl
ShowsSuccess(response) ==
    /\ "success" \in DOMAIN response.body
    /\ response.body.success
    /\ Truthy(Field(response.body, "stepUrl"))

\* response.json() settles; the result is shown, then the finally block runs.
JsonDone(r) ==
    /\ r \in DOMAIN runs
    /\ runs[r].pc = "json"
    /\ LET response == runs[r].response IN
        IF ~response.parseable
        THEN /\ CatchRun(r)
             /\ UNCHANGED sceneRef
        ELSE IF ShowsSuccess(response)
        THEN /\ sceneRef' = DisplaySuccessModel(sceneRef)
             /\ messages' = AddMessage(messages,
                    [type |-> "assistant",
                     content |-> SuccessText,
                     stepUrl |-> Field(response.body, "stepUrl")],
                    clock)
             /\ EndRun(r, "success")
        ELSE /\ messages' = AddMessage(messages,
                    [type |-> "assistant", content |-> FailedText(response.body)],
                    clock)
             /\ UNCHANGED sceneRef
             /\ EndRun(r, "failure")
    /\ UNCHANGED <<vars, clock, viewer>>

ClientNext ==
    \/ ClientTick
    \/ InitViewer
    \/ \E file \in Files : HandleFileSelect(file) \/ HandleDrop(file)
    \/ RemoveSelectedFile
    \/ \E text \in PromptTexts : SetPrompt(text)
    \/ ProcessImage
    \/ \E r \in 1..MaxRuns : Base64Done(r) \/ FetchDone(r) \/ JsonDone(r)

-----------------------------------------------------------------------------

Next ==
    \/ Tick
    \/ \E j \in Jobs :
        \/ Receive(j)
        \/ ImageUploadDone(j)
        \/ WriteTempDone(j)
        \/ PythonCheckDone(j)
        \/ EngineWrite(j)
        \/ EngineExit(j)
        \/ EngineSpawnFail(j)
        \/ TimerFire(j)
        \/ ReadStepDone(j)
        \/ StepUploadDone(j)
        \/ InsertDone(j)
        \/ RemoveImageDone(j)
        \/ RemoveStepDone(j)

\* The state after the function has been deployed and the page loaded.
SystemInit == Init /\ ClientInit

\* The handler on its own: the component is not mounted.
Spec == SystemInit /\ [][Next]_<<vars, cvars>>

\* The timer callback is a macrotask of the runtime's event loop: once armed
\* it fires.  Nothing makes the engine process exit.
LiveSpec == Spec /\ \A j \in Jobs : WF_vars(TimerFire(j))

\* The component on its own, against a server that can answer anything.
ClientSpec == SystemInit /\ [][ClientNext]_<<vars, cvars>>

-----------------------------------------------------------------------------
(* Observations *)

Reported(j) == job[j].pc = "done" /\ Len(resp[j]) >= 1

Body(j) == resp[j][1].body

Succeeded(j) == Reported(j) /\ Body(j).success

Failed(j) == Reported(j) /\ ~Body(j).success

Set(r, field) == field \in DOMAIN r /\ r[field] \notin {"", Undefined, Null}

AllResponses == UNION { { resp[j][i] : i \in 1..Len(resp[j]) } : j \in Jobs }

-----------------------------------------------------------------------------
(* Claims *)

\* C1: every response to a conversion request is exactly one of: success=true
\* with imageUrl and stepUrl both set, or success=false with a non-empty
\* error text.
C1_ResponseShape ==
    \A r \in AllResponses :
        LET b == r.body
            good == b.success /\ Set(b, "imageUrl") /\ Set(b, "stepUrl")
            bad == ~b.success /\ Set(b, "error")
        IN (good \/ bad) /\ ~(good /\ bad)

\* A job has reported success while the other has reported failure.
C1_Witness ==
    \E j, k \in Jobs : Succeeded(j) /\ Failed(k)

\* C2 (as claimed): once a job has reported, no temp file the job created
\* (the input it wrote, the output its engine wrote) is left.
C2_CleanupOnEveryExit ==
    \A j \in Jobs :
        Reported(j) => \A p \in hist[j].staged : ~Exists(p)

\* C3: a failing metadata insert never fails the job: the insert is only
\* reached after exit code 0, a successful read and both uploads, and the job
\* then reports success with both locators and modelId null.
C3_InsertFailureNonFatal ==
    \A j \in Jobs :
        hist[j].dbFailed =>
            /\ hist[j].exitCode = 0
            /\ hist[j].readResult = "present"
            /\ hist[j].rejected = ""
            /\ job[j].pc \in {"rmImage", "rmStep", "done"}
            /\ Reported(j) =>
                /\ Body(j).success
                /\ Set(Body(j), "imageUrl")
                /\ Set(Body(j), "stepUrl")
                /\ Body(j).modelId = Null
                /\ resp[j][1].status = 200

\* A job whose insert failed has reported.
C3_Witness ==
    \E j \in Jobs : hist[j].dbFailed /\ Reported(j)

\* C4: when the timer settles the race the job is reported at once as a
\* timeout failure, whatever the process does, and the job never reads the
\* output, uploads it or inserts a record; when the process settles the race
\* its exit code decides: non-zero is the engine failure, zero goes on to
\* the read, and a later firing of the timer changes nothing.
C4_RaceDecides ==
    \A j \in Jobs :
        /\ hist[j].winner = "timer" =>
            /\ job[j].pc = "done"
            /\ resp[j] = << [status |-> 500,
                             body |-> [success |-> FALSE, error |-> TimeoutMessage]] >>
            /\ hist[j].stepReads = 0
            /\ hist[j].stepUploads = 0
            /\ hist[j].inserts = 0
            /\ ~hist[j].dbFailed
            /\ job[j].stepFileName = Undefined
        /\ hist[j].winner = "process" =>
            /\ hist[j].exitCode # 0 =>
                  /\ Failed(j)
                  /\ hist[j].stepReads = 0
            /\ hist[j].exitCode = 0 =>
                  \/ job[j].pc = "readStep"
                  \/ hist[j].stepReads = 1
            /\ Reported(j) => Body(j) # [success |-> FALSE, error |-> TimeoutMessage]

\* The timer won while the process was still running, and the process wrote
\* its output after the job had reported.
C4_Witness ==
    \E j \in Jobs :
        /\ hist[j].winner = "timer"
        /\ proc[j].state = "running"
        /\ proc[j].wrote
        /\ Reported(j)

\* C5: a job waiting in the race does not wait for ever: it leaves the race
\* because the process settled it, or it reports the timeout failure.
C5_NoIndefiniteWait ==
    \A j \in Jobs :
        (job[j].pc = "race") ~>
            (\/ hist[j].winner \in {"process", "spawnerror"}
             \/ (Failed(j) /\ Body(j).error = TimeoutMessage))

\* A job has reported the timeout while its engine never terminated.
C5_Witness ==
    \E j \in Jobs :
        /\ Failed(j)
        /\ Body(j).error = TimeoutMessage
        /\ proc[j].state = "running"
        /\ ~proc[j].wrote

\* C6 (as claimed): a job that succeeds has published the output the engine
\* derived from the job's own input.
C6_OwnOutputPublished ==
    \A j \in Jobs :
        Succeeded(j) =>
            /\ job[j].stepFileName \in DOMAIN cadModels
            /\ cadModels[job[j].stepFileName].data = Derive(job[j].imageBytes)

\* C7 (as claimed): after a non-zero exit the error text carries the captured
\* stderr text verbatim, whatever it is.
C7_StderrVerbatim ==
    \A j \in Jobs :
        (hist[j].winner = "process" /\ hist[j].exitCode # 0) =>
            /\ Failed(j)
            /\ Body(j).error =
                  "Python script failed (exit code " \o ToString(hist[j].exitCode)
                      \o "): " \o hist[j].stderrText

\* C7 (amended): after a non-zero exit the job reports failure and the error
\* text carries the captured stderr text verbatim when that text is not
\* empty, and 'Unknown error' in its place when it is empty.
C7_StderrOrUnknown ==
    \A j \in Jobs :
        (hist[j].winner = "process" /\ hist[j].exitCode # 0) =>
            /\ Failed(j)
            /\ resp[j][1].status = 500
            /\ Body(j).error =
                  "Python script failed (exit code " \o ToString(hist[j].exitCode)
                      \o "): "
                      \o (IF hist[j].stderrText = "" THEN "Unknown error"
                          ELSE hist[j].stderrText)

\* A job failed on a non-zero exit with stderr text, another with none.
C7_Witness ==
    \E j, k \in Jobs :
        /\ hist[j].winner = "process" /\ hist[j].exitCode # 0
        /\ hist[j].stderrText # "" /\ Reported(j)
        /\ hist[k].winner = "process" /\ hist[k].exitCode # 0
        /\ hist[k].stderrText = "" /\ Reported(k)

\* The engine-failure messages the handler can produce.
EngineFailureMessages ==
    { "Python script failed (exit code " \o ToString(c) \o "): " \o t :
        c \in {0, 1}, t \in {TextDecode(e) : e \in StderrChoices} \cup {"Unknown error"} }

\* C8: after exit code 0 the handler always goes on to read the output (the
\* invoker does not look at the file); when the file is absent at the read the
\* job reports failure with the 'STEP file not generated' error, which is no
\* engine-failure error, and no output upload or insert follows.
C8_MissingOutput ==
    \A j \in Jobs :
        /\ (hist[j].winner = "process" /\ hist[j].exitCode = 0) =>
              (job[j].pc = "readStep" \/ hist[j].stepReads = 1)
        /\ hist[j].readResult = "absent" =>
              /\ hist[j].exitCode = 0
              /\ Failed(j)
              /\ Body(j).error =
                    "STEP file not generated: " \o NotFoundMessage(job[j].tempStepPath)
              /\ Body(j).error \notin EngineFailureMessages
              /\ hist[j].stepUploads = 0
              /\ hist[j].inserts = 0
              /\ ~hist[j].dbFailed
              /\ job[j].stepFileName \notin DOMAIN cadModels

\* An engine exited 0 without writing, and the job reported the missing file.
C8_Witness ==
    \E j \in Jobs :
        /\ hist[j].readResult = "absent"
        /\ proc[j].state = "exited"
        /\ ~proc[j].wrote
        /\ Reported(j)

\* C9: a rejected input or output upload makes the job report failure with
\* an error text that carries the store's reason, and the rejected upload has
\* been attempted once and is never attempted again.
C9_UploadRejected ==
    \A j \in Jobs :
        /\ hist[j].imageUploads <= 1
        /\ hist[j].stepUploads <= 1
        /\ hist[j].rejected # "" =>
              /\ Failed(j)
              /\ hist[j].imageUploads = 1
              /\ IF hist[j].stepUploads = 0
                 THEN Body(j).error = "Image upload failed: " \o hist[j].rejected
                 ELSE Body(j).error = "STEP file upload failed: " \o hist[j].rejected

\* One job's input upload and the other's output upload were rejected.
C9_Witness ==
    \E j, k \in Jobs :
        /\ hist[j].rejected # "" /\ hist[j].stepUploads = 0 /\ Reported(j)
        /\ hist[k].rejected # "" /\ hist[k].stepUploads = 1 /\ Reported(k)

\* C10: the status of a response is 200 exactly when its body has
\* success=true and 500 exactly when its body has success=false.
C10_StatusMatchesSuccess ==
    \A r \in AllResponses :
        /\ r.status = 200 <=> r.body.success
        /\ r.status = 500 <=> ~r.body.success

\* Both statuses have been returned.
C10_Witness ==
    \E j, k \in Jobs :
        /\ Reported(j) /\ resp[j][1].status = 500
        /\ Reported(k) /\ resp[k][1].status = 200

-----------------------------------------------------------------------------
(* Stage order *)

InLog(j, stage) == \E i \in DOMAIN hist[j].log : hist[j].log[i] = stage

\* The stages of the handler in the order of its text.
StageOrder ==
    <<"decode", "uploadImage", "writeTemp", "pythonCheck", "invoke",
      "readStep", "uploadStep", "insert", "rmImage", "rmStep">>

\* The stage a job is waiting in.
StageOfPc(pc) == IF pc = "idle" THEN "decode" ELSE IF pc = "race" THEN "invoke" ELSE pc

\* The completed stages of a job, without the report that ends it.
StagesDone(j) ==
    LET l == hist[j].log IN
    IF l # <<>> /\ l[Len(l)] = "report" THEN SubSeq(l, 1, Len(l) - 1) ELSE l

IsPrefix(a, b) == Len(a) <= Len(b) /\ \A i \in DOMAIN a : a[i] = b[i]

\* C11 (as claimed): the input artifact is published only after the local
\* input has been staged and the engine has been invoked.
C11_PublishAfterInvoke ==
    \A j \in Jobs :
        InLog(j, "uploadImage") => (InLog(j, "writeTemp") /\ hist[j].engineStarts >= 1)

\* C11 (amended): the stages of a job occur in the order decode, publish
\* input, stage local input, preflight, invoke, read output, publish output,
\* record metadata, cleanup, report; the stage a job waits in is the one
\* after its last completed stage, and the report comes last.
C11_StageOrder ==
    \A j \in Jobs :
        LET done == StagesDone(j) IN
        /\ IsPrefix(done, StageOrder)
        /\ \A i \in DOMAIN done : done[i] # "report"
        /\ job[j].pc # "done" =>
              /\ done = hist[j].log
              /\ Len(done) < Len(StageOrder)
              /\ StageOfPc(job[j].pc) = StageOrder[Len(done) + 1]
        /\ job[j].pc = "done" <=> (hist[j].log # <<>> /\ hist[j].log[Len(hist[j].log)] = "report")
        /\ InLog(j, "writeTemp") => job[j].imageFileName \in DOMAIN cadImages
        /\ Succeeded(j) => Len(done) >= 9

\* A job has gone through every stage and reported.
C11_Witness ==
    \E j \in Jobs : Succeeded(j) /\ StagesDone(j) = StageOrder

\* The error texts a fatal failure of a stage puts in the response.
ReasonsOf(j, stage) ==
    CASE stage = "decode" -> {JsonErrorMessage, AtobErrorMessage}
      [] stage = "uploadImage" -> {"Image upload failed: " \o hist[j].rejected}
      [] stage = "writeTemp" -> {WriteErrorMessage}
      [] stage = "pythonCheck" -> {PythonEnvMessage}
      [] stage = "invoke" ->
            IF hist[j].winner = "timer" THEN {TimeoutMessage}
            ELSE IF hist[j].winner = "spawnerror" THEN {SpawnErrorMessage}
            ELSE EngineFailureMessages
      [] stage = "readStep" ->
            {"STEP file not generated: " \o NotFoundMessage(job[j].tempStepPath)}
      [] stage = "uploadStep" -> {"STEP file upload failed: " \o hist[j].rejected}
      [] OTHER -> {}

StageIndex(stage) == CHOOSE i \in DOMAIN StageOrder : StageOrder[i] = stage

\* C12: once a stage has failed fatally the job is reported as a failure with
\* that failure's reason, and no later stage has been or will be attempted:
\* the completed stages end at the failed one, and the engine start, the
\* uploads and the insert that come after it in the order never happened.
C12_FailureShortCircuits ==
    \A j \in Jobs :
        hist[j].failedAt # "none" =>
            LET at == hist[j].failedAt
                done == StagesDone(j)
            IN
            /\ at \in {"decode", "uploadImage", "writeTemp", "pythonCheck",
                       "invoke", "readStep", "uploadStep"}
            /\ job[j].pc = "done"
            /\ Len(resp[j]) = 1
            /\ Failed(j)
            /\ Body(j).error \in ReasonsOf(j, at)
            /\ done = SubSeq(StageOrder, 1, StageIndex(at))
            /\ hist[j].log = Append(done, "report")
            /\ StageIndex(at) < StageIndex("uploadImage") => hist[j].imageUploads = 0
            /\ StageIndex(at) <= StageIndex("pythonCheck") =>
                  (hist[j].engineStarts = 0 /\ proc[j].state = "none" /\ timer[j] = "unarmed")
            /\ StageIndex(at) < StageIndex("readStep") => hist[j].stepReads = 0
            /\ StageIndex(at) < StageIndex("uploadStep") =>
                  (hist[j].stepUploads = 0 /\ job[j].stepFileName \notin DOMAIN cadModels)
            /\ hist[j].inserts = 0
            /\ ~hist[j].dbFailed
            /\ hist[j].cleanups = 0

\* One job failed at the preflight check and the other at the STEP upload.
C12_Witness ==
    \E j, k \in Jobs :
        /\ hist[j].failedAt = "pythonCheck" /\ Reported(j)
        /\ hist[k].failedAt = "uploadStep" /\ Reported(k)

\* C13: a failed removal of a temp file is only logged: a job whose cleanup
\* failed reports success with status 200 and with the locators of its own
\* two uploads, and no job that reached the cleanup reports a failure.
C13_CleanupFailureHarmless ==
    \A j \in Jobs :
        /\ hist[j].cleanupFailed =>
              /\ job[j].pc = "done"
              /\ hist[j].failedAt = "none"
              /\ resp[j] =
                    << [status |-> 200,
                        body |-> [success |-> TRUE,
                                  modelId |-> job[j].modelId,
                                  imageUrl |-> PublicUrl("cad-images", job[j].imageFileName),
                                  stepUrl |-> PublicUrl("cad-models", job[j].stepFileName),
                                  message |-> "CAD model generated successfully"]] >>
        /\ (InLog(j, "rmImage") /\ Reported(j)) => Succeeded(j)

\* A job's removal of its output file failed (the other job, sharing the
\* path, had removed it) and the job has reported.
C13_Witness ==
    \E j \in Jobs :
        /\ hist[j].cleanupFailed
        /\ InLog(j, "rmStep")
        /\ Reported(j)

\* C14 (as claimed): once a job has reported, no engine process the job
\* started is still running.
C14_NoProcessAfterReport ==
    \A j \in Jobs : Reported(j) => proc[j].state # "running"

HoldsStaged(j) == InLog(j, "writeTemp") /\ job[j].pc # "done"

\* C16 (as claimed): two jobs that hold staged artifacts at the same time have
\* different input paths and different output paths, and a job's output path
\* differs from its input path.
C16_DistinctTempPaths ==
    \A j, k \in Jobs :
        /\ HoldsStaged(j) => job[j].tempImagePath # job[j].tempStepPath
        /\ (j # k /\ HoldsStaged(j) /\ HoldsStaged(k)) =>
              /\ job[j].tempImagePath # job[k].tempImagePath
              /\ job[j].tempStepPath # job[k].tempStepPath

\* C17 (as claimed): no two jobs use the same key in the same bucket, and no
\* upload of a job is rejected as a duplicate.
C17_UniqueKeys ==
    \A j, k \in Jobs :
        /\ hist[j].rejected # DuplicateReason
        /\ (j # k /\ job[j].imageFileName # Undefined) =>
              job[j].imageFileName # job[k].imageFileName
        /\ (j # k /\ job[j].stepFileName # Undefined) =>
              job[j].stepFileName # job[k].stepFileName

\* C18: the engine is started at most once per job, and exactly once in the
\* jobs whose preflight check succeeded; a non-zero exit, a timeout or a
\* missing output leaves the count at one.
C18_EngineOnce ==
    \A j \in Jobs :
        /\ hist[j].engineStarts <= 1
        /\ hist[j].engineStarts = 1 <=>
              (InLog(j, "pythonCheck") /\ hist[j].failedAt # "pythonCheck")
        /\ hist[j].engineStarts = 1 <=> proc[j].state # "none"
        /\ hist[j].winner # "none" => hist[j].engineStarts = 1
        /\ hist[j].stepReads >= 1 => hist[j].engineStarts = 1

\* One job failed on a missing output and the other on the timeout or a
\* non-zero exit, each after one engine start.
C18_Witness ==
    \E j, k \in Jobs :
        /\ hist[j].readResult = "absent" /\ Reported(j) /\ hist[j].engineStarts = 1
        /\ hist[k].failedAt = "invoke" /\ Reported(k) /\ hist[k].engineStarts = 1

\* C19: a job has at most one response, it has one exactly when it is done,
\* and once it is done neither its response nor its locals nor its stage log
\* change again, whatever the loser of the race does afterwards.
C19_OneOutcome ==
    /\ [](\A j \in Jobs :
            /\ Len(resp[j]) <= 1
            /\ job[j].pc = "done" <=> Len(resp[j]) = 1)
    /\ [][\A j \in Jobs :
            job[j].pc = "done" =>
                /\ resp'[j] = resp[j]
                /\ job'[j] = job[j]
                /\ hist'[j].log = hist[j].log
                /\ hist'[j].winner = hist[j].winner
                /\ hist'[j].failedAt = hist[j].failedAt]_vars

\* Both losers have acted: one job's timer fired after its process had
\* settled the race, the other job's process exited after the timeout.
C19_Witness ==
    \E j, k \in Jobs :
        /\ Reported(j) /\ hist[j].winner = "process" /\ timer[j] = "fired"
        /\ Reported(k) /\ hist[k].winner = "timer" /\ proc[k].state = "exited"

\* C20 (as claimed): at the step that starts a job's engine, the job's input
\* path holds the decoded request bytes and its output path does not exist.
C20_StagedAtEngineStart ==
    [][\A j \in Jobs :
          (job[j].pc = "pythonCheck" /\ job'[j].pc = "race") =>
              /\ job[j].tempImagePath \in DOMAIN fs'
              /\ fs'[job[j].tempImagePath] = Atob(job[j].req.imageData)
              /\ job[j].tempStepPath \notin DOMAIN fs']_vars

-----------------------------------------------------------------------------
(* The metadata record, the timer and the stored input *)

\* The rows of the models table a job inserted.
RecordsOf(j) == { i \in DOMAIN models : models[i].id = job[j].modelId }

\* C21: a job inserts at most one row into the models table, the insert is
\* attempted only after the job's output upload succeeded, the row's file_url
\* is the stepUrl of the job's success response, and a job that reports
\* failure has inserted no row; every row belongs to one job.
C21_OneRecord ==
    /\ \A i \in DOMAIN models : \E j \in Jobs : i \in RecordsOf(j)
    /\ \A j \in Jobs :
        /\ Cardinality(RecordsOf(j)) <= 1
        /\ hist[j].inserts = Cardinality(RecordsOf(j))
        /\ (job[j].pc = "insert" \/ hist[j].inserts = 1 \/ hist[j].dbFailed) =>
              /\ hist[j].stepUploads = 1
              /\ hist[j].rejected = ""
              /\ job[j].stepFileName \in DOMAIN cadModels
        /\ \A i \in RecordsOf(j) :
              /\ models[i].file_url = PublicUrl("cad-models", job[j].stepFileName)
              /\ Reported(j) =>
                    (Succeeded(j) /\ Body(j).stepUrl = models[i].file_url)
        /\ Failed(j) => RecordsOf(j) = {}

\* Both jobs have reported success, each with its own row.
C21_Witness ==
    \A j \in Jobs : Succeeded(j) /\ RecordsOf(j) # {}

\* The positions of the handler before the engine process is awaited.
BeforeRace == {"idle", "uploadImage", "writeTemp", "pythonCheck"}

\* C22: no timer exists while a job decodes, uploads its input, writes its
\* temp file or waits for the preflight check; a job has a timer exactly when
\* its preflight check has succeeded, which is when it started awaiting the
\* engine; and a timeout failure is reported only by a job that was in the
\* race, never by one that failed at an earlier stage.
C22_TimerArmedAtRace ==
    \A j \in Jobs :
        /\ job[j].pc \in BeforeRace => timer[j] = "unarmed"
        /\ timer[j] # "unarmed" <=>
              (InLog(j, "pythonCheck") /\ hist[j].failedAt # "pythonCheck")
        /\ timer[j] # "unarmed" <=> hist[j].engineStarts = 1
        /\ job[j].pc = "race" => timer[j] = "armed"
        /\ hist[j].failedAt \in {"decode", "uploadImage", "writeTemp", "pythonCheck"} =>
              (timer[j] = "unarmed" /\ Body(j).error # TimeoutMessage)
        /\ (Failed(j) /\ Body(j).error = TimeoutMessage) =>
              (hist[j].failedAt = "invoke" /\ hist[j].winner = "timer")

\* A job waits for its preflight check with no timer while the clock has
\* advanced past the instant its temp paths were named, and the other job's
\* timer has fired and failed it.
C22_Witness ==
    \E j, k \in Jobs :
        /\ job[j].pc = "pythonCheck"
        /\ timer[j] = "unarmed"
        /\ job[j].tempStepPath = TempStepPath(0)
        /\ now = 1
        /\ Failed(k) /\ Body(k).error = TimeoutMessage /\ timer[k] = "fired"

\* The stages that can fail after the input upload succeeded.
AfterInputUpload == {"writeTemp", "pythonCheck", "invoke", "readStep", "uploadStep"}

\* C23: from its input upload on, in every later state, a job has its input
\* stored in the cad-images bucket under its key with the bytes it decoded;
\* a job that failed at a stage after the input upload has failed at one of
\* the listed stages, and its failure response has no imageUrl and no
\* stepUrl.
C23_InputLeftInBucket ==
    \A j \in Jobs :
        /\ (InLog(j, "uploadImage") /\ hist[j].failedAt # "uploadImage") =>
              /\ hist[j].imageUploads = 1
              /\ job[j].imageFileName \in DOMAIN cadImages
              /\ cadImages[job[j].imageFileName].data = Atob(job[j].req.imageData)
        /\ (Failed(j) /\ InLog(j, "uploadImage") /\ hist[j].failedAt # "uploadImage") =>
              /\ hist[j].failedAt \in AfterInputUpload
              /\ DOMAIN Body(j) = {"success", "error"}

\* One job failed right after its input upload and the other at its output
\* upload; the bucket holds the inputs of both.
C23_Witness ==
    \E j, k \in Jobs :
        /\ Failed(j) /\ hist[j].failedAt = "writeTemp"
        /\ Failed(k) /\ hist[k].failedAt = "uploadStep"
        /\ {job[j].imageFileName, job[k].imageFileName} \subseteq DOMAIN cadImages
        /\ Cardinality(DOMAIN cadImages) = 2

\* C30: a job whose removal of the temp input failed has not attempted the
\* removal of its temp output: it has reported success right after the first
\* removal, the second removal is not among its stages, and a job waits for
\* the second removal only after a first removal that succeeded.
C30_SecondRemovalSkipped ==
    \A j \in Jobs :
        /\ (hist[j].cleanupFailed /\ ~InLog(j, "rmStep")) =>
              /\ Succeeded(j)
              /\ resp[j][1].status = 200
              /\ hist[j].log = SubSeq(StageOrder, 1, 9) \o <<"report">>
              /\ hist[j].cleanups = 1
        /\ job[j].pc = "rmStep" => ~hist[j].cleanupFailed
        /\ (InLog(j, "rmImage") /\ ~InLog(j, "rmStep") /\ job[j].pc = "done") =>
              hist[j].cleanupFailed

\* A job whose first removal failed has reported success and its output file
\* is still on disk.
C30_Witness ==
    \E j \in Jobs :
        /\ hist[j].cleanupFailed
        /\ ~InLog(j, "rmStep")
        /\ Succeeded(j)
        /\ Exists(job[j].tempStepPath)
        /\ \A k \in Jobs : job[k].pc = "done"

-----------------------------------------------------------------------------
(* The CadProcessor component: claims *)

RunsInFlight == { r \in DOMAIN runs : runs[r].pc # "ended" }

RunsEnded == { r \in DOMAIN runs : runs[r].pc = "ended" }

\* C24: a run of processImage starts only with a file selected and sets
\* isProcessing; the step in which a run returns, by whichever path (result
\* shown, or the catch block after a failed conversion, fetch or parse),
\* leaves isProcessing false, selectedFile null and prompt empty, whatever
\* the user selected or typed while the request was in flight; and
\* isProcessing is true exactly while a run is in flight.
C24_RunResetsState ==
    /\ [](isProcessing <=> RunsInFlight # {})
    /\ [][/\ Len(runs') > Len(runs) =>
               /\ selectedFile # Null
               /\ isProcessing'
               /\ runs'[Len(runs')].file = selectedFile
               /\ runs'[Len(runs')].pc # "ended"
          /\ \A r \in DOMAIN runs :
               (runs[r].pc # "ended" /\ runs'[r].pc = "ended") =>
                   /\ isProcessing' = FALSE
                   /\ selectedFile' = Null
                   /\ prompt' = ""
                   /\ runs'[r].outcome \in {"success", "failure", "error"}]_cvars

\* A run has returned through the catch block after the user chose a file
\* while the request was in flight, and the selection is gone.
C24_Witness ==
    \E r \in RunsEnded :
        /\ runs[r].reselected
        /\ runs[r].outcome = "error"
        /\ selectedFile = Null
        /\ prompt = ""
        /\ ~isProcessing

\* The texts a run can end its three messages with.
ResultTexts ==
    {SuccessText, CatchText} \cup
    { "Processing failed: " \o e : e \in {TimeoutMessage, DefaultErrorText} }

\* C25: the chat list is the welcome message followed by one group per run:
\* a user message, the 'processing' assistant message, and, once the run has
\* returned, exactly one result message, which is the success message with
\* its stepUrl or a failure message; a step never removes, changes or
\* reorders a message, it appends two at a start, one at a return, and none
\* otherwise.
C25_ThreeMessagesPerRun ==
    /\ [](/\ Len(messages) = 1 + 3 * Cardinality(RunsEnded) + 2 * Cardinality(RunsInFlight)
          /\ messages[1] = WelcomeMessage
          /\ \A r \in DOMAIN runs :
                LET u == 3 * r - 1 IN
                /\ u + 1 <= Len(messages)
                /\ messages[u].type = "user"
                /\ messages[u + 1].type = "assistant"
                /\ messages[u + 1].content = ProcessingText
                /\ r \in RunsEnded <=> u + 2 <= Len(messages)
                /\ r \in RunsEnded =>
                      /\ messages[u + 2].type = "assistant"
                      /\ messages[u + 2].content \in ResultTexts
                      /\ messages[u + 2].content = SuccessText <=>
                            "stepUrl" \in DOMAIN messages[u + 2])
    /\ [][/\ IsPrefix(messages, messages')
          /\ Len(messages') - Len(messages) =
               IF Len(runs') > Len(runs) THEN 2
               ELSE IF RunsInFlight # {r \in DOMAIN runs' : runs'[r].pc # "ended"} THEN 1
               ELSE 0]_cvars

\* Two runs have returned, one with the success message and one through the
\* catch block.
C25_Witness ==
    /\ Len(runs) = 2
    /\ RunsInFlight = {}
    /\ Len(messages) = 7
    /\ messages[4].content = SuccessText
    /\ messages[7].content = CatchText

\* C26 (as claimed): the messages of the chat list have pairwise distinct ids.
C26_DistinctIds ==
    \A i, k \in DOMAIN messages : i # k => messages[i].id # messages[k].id

C28_OneRequestInFlight ==
    /\ Cardinality(RunsInFlight) <= 1
    /\ RunsInFlight # {} => (isProcessing /\ GenerateDisabled)
    /\ \A r \in DOMAIN runs : r < Len(runs) => runs[r].pc = "ended"

\* A second run is in flight after the first has returned, and the user has
\* selected a file while it is in flight.
C28_Witness ==
    /\ Len(runs) = 2
    /\ runs[1].pc = "ended"
    /\ runs[2].pc = "fetch"
    /\ selectedFile # Null
    /\ isProcessing

CadModels(ref) == { i \in DOMAIN ref.children : ref.children[i].name = "cadModel" }

\* C29: once the viewer is initialised the scene holds exactly one object
\* named 'cadModel', the last one displayed, and the lights and helpers are
\* untouched.
C29_OneCadModel ==
    /\ sceneRef.set <=> viewer = "ready"
    /\ sceneRef.set =>
          /\ Cardinality(CadModels(sceneRef)) = 1
          /\ CadModels(sceneRef) = {Len(sceneRef.children)}
          /\ SubSeq(sceneRef.children, 1, Len(BaseScene)) = BaseScene
    /\ ~sceneRef.set => sceneRef.children = <<>>

\* The success model has been displayed twice on an initialised viewer.
C29_Witness ==
    /\ sceneRef.set
    /\ Len(runs) = 2
    /\ RunsInFlight = {}
    /\ messages[4].content = SuccessText
    /\ messages[7].content = SuccessText
    /\ sceneRef.children[Len(sceneRef.children)].kind = "success"

====
